---- MODULE Spec2Model ----
(***************************************************************************)
(* Session/progress controller of src/static/js/analysis.js                *)
(* (class ModernAnalysisSystem).  The browser runs one callback at a time  *)
(* to completion; a callback is suspended only at an await.  Each action   *)
(* below is one such run-to-completion piece: a user event handler up to   *)
(* its first await, a timer tick up to its fetch, or the continuation that *)
(* handles one response.                                                   *)
(***************************************************************************)
EXTENDS Integers, Sequences, FiniteSets, Bags, TLC

\* ---------------------------------------------------------------- bounds
\* setInterval calls over a run (interval handles are never reused)
MaxTimers == 2
\* requests that may be awaiting their response at the same time
MaxInFlight == 2
\* longest segment text typed into the form
MaxLen == 3
\* most sessions in one answer of GET /api/sessions
MaxList == 1
\* most files dropped or selected at once
MaxBatch == 2
\* notification elements created over a run (an element is never reused)
MaxElements == 2
\* removals of notifications that may be fading out at the same time
MaxFading == 2
\* the completion re-fetch counter saturates here
CountCap == 2
\* longest value typed into a field of the form
MaxValueLen == 1
\* form changes whose delayed save may be pending at the same time
MaxSaveTimeouts == 1

\* ------------------------------------------------------------- constants
Null == "null"
NoTimer == 0
MinSegmentLen == 3

Sessions == {"s1", "s2"}
SessionStatuses == {"running", "paused", "completed", "error", "saved"}
\* the statuses a listed session may carry: those, and one the client does not know
ListedStatuses == SessionStatuses \cup {"archived"}
Percentages == {-10, 45, 150}
Chars == {" ", "a"}
SegmentValues == UNION {[1..n -> Chars] : n \in 0..MaxLen}
ProductValues == {"", "T"}

\* validateFile: maxSize, in bytes
MaxFileSize == 10 * 1024 * 1024
\* validateFile: allowedTypes
AllowedTypes ==
    <<"application/pdf", "text/plain", "application/msword",
      "application/vnd.openxmlformats-officedocument.wordprocessingml.document">>

\* the files a user drops or selects: two at the size limit and of a type on
\* the list, one a byte above the limit, one of a type that is not on the list
FileSizes == {MaxFileSize, MaxFileSize + 1}
Files ==
    [name : {"f1"}, size : {MaxFileSize}, type : {"application/pdf", "image/png"}]
        \cup [name : {"f2"}, size : FileSizes, type : {"application/msword"}]
Batches == UNION {[1..n -> Files] : n \in 0..MaxBatch}

\* the named fields of #analysisForm, in document order, and what is typed into
\* them: the two characters JSON escapes, a quote and a backslash
FormFields == <<"segmento", "produto">>
FieldChars == {"\"", "\\"}
FieldValues == UNION {[1..n -> FieldChars] : n \in 0..MaxValueLen}
Forms == [{FormFields[i] : i \in 1..Len(FormFields)} -> FieldValues]
BlankForm == [name \in {FormFields[i] : i \in 1..Len(FormFields)} |-> << >>]

\* what showNotification is called with
Messages == {"saved", "failed"}
Severities == {"info", "error"}

VARIABLES
    currentSessionId,   \* this.currentSessionId
    progressInterval,   \* this.progressInterval: a handle, or NoTimer
    isPaused,           \* this.isPaused
    sessions,           \* this.sessions: identifier -> status
    storedSessionId,    \* localStorage['currentSessionId']
    timers,             \* the browser's live intervals started by the class
    nextTimer,          \* the handle the next setInterval returns
    net,                \* bag of requests awaiting their response
    progressFill,       \* .progress-fill width, in percent
    progressPercentage, \* .progress-percentage text, without the % sign
    pageTitle,          \* the percentage shown in document.title
    progressShown,      \* #progressContainer is displayed
    controls,           \* the status last given to updateSessionControls
    listView,           \* what #sessionsList shows: "list" or "empty"
    emitted,            \* severities passed to showNotification by the last callback
    completionFetches,  \* list fetches made by completion handling since a poll last started
    ev,                 \* the callback that ran last, with its inputs
    displayBefore,      \* the progress display the continue in flight found when clicked
    notifications,      \* this.notifications: the elements shown, oldest first
    container,          \* the children of #notificationContainer, in document order
    elements,           \* element -> the message and severity it was created with
    timeouts,           \* bag of pending setTimeout callbacks of the notifications
    form,               \* the value of each named field of #analysisForm
    storedFormData,     \* localStorage['analysisFormData']: whether present, and the JSON text
    saveTimeouts,       \* pending setTimeout callbacks of the form's change handler
    lastDelete          \* the delete last confirmed: its session, whether it has
                        \* succeeded, whether a list was requested since the click

vars == <<currentSessionId, progressInterval, isPaused, sessions, storedSessionId,
          timers, nextTimer, net, progressFill, progressPercentage, pageTitle,
          progressShown, controls, listView, emitted, completionFetches, ev,
          displayBefore, notifications, container, elements, timeouts,
          form, storedFormData, saveTimeouts, lastDelete>>

pollVars == <<progressInterval, timers, nextTimer, completionFetches>>
progressVars == <<progressFill, progressPercentage, pageTitle>>
notifyVars == <<notifications, container, elements, timeouts>>
formVars == <<form, storedFormData, saveTimeouts>>
historyVars == <<displayBefore, lastDelete>>
controllerVars ==
    <<currentSessionId, progressInterval, isPaused, sessions, storedSessionId,
      timers, nextTimer, net, progressFill, progressPercentage, pageTitle,
      progressShown, controls, listView, completionFetches>>

\* the progress container and what it shows
Display == <<progressShown, progressFill, progressPercentage, pageTitle>>

\* what only the specifications of the session actions, of the notifications and
\* of the form's auto-save follow: the others record the calls of
\* showNotification in emitted and leave the collection the elements are kept
\* in aside, and take the submitted form as an input
unfollowed == <<displayBefore, lastDelete, notifyVars, formVars>>

\* ------------------------------------------------------------- messages
Msg(kind, sid, timer) == [kind |-> kind, sid |-> sid, timer |-> timer]
InFlight == BagToSet(net)
Sent(m) == net (+) SetToBag({m})
Answered(m) == net (-) SetToBag({m})
Pending(kind) == {m \in InFlight : m.kind = kind}

\* lastDelete while no delete is followed
NoDelete == [sid |-> Null, done |-> FALSE, listedSince |-> FALSE]

\* displayBefore when no continue is in flight, or when two are and the display
\* each of them found can no longer be told apart
NoDisplayBefore == [known |-> FALSE, display |-> <<FALSE, 0, 0, 0>>]

\* displayBefore after a click on continue
DisplayFound ==
    IF Pending("continue") = {} THEN [known |-> TRUE, display |-> Display]
                                ELSE NoDisplayBefore

\* ------------------------------------------------------ form validation
RECURSIVE TrimStart(_)
TrimStart(s) ==
    IF s = <<>> THEN s
    ELSE IF Head(s) = " " THEN TrimStart(Tail(s)) ELSE s

RECURSIVE TrimEnd(_)
TrimEnd(s) ==
    IF s = <<>> THEN s
    ELSE IF s[Len(s)] = " " THEN TrimEnd(SubSeq(s, 1, Len(s) - 1)) ELSE s

Trim(s) == TrimEnd(TrimStart(s))

\* validateForm measuring the text as typed
ValidateFormUntrimmed(segmento) ==
    IF Trim(segmento) = <<>> THEN "empty"
    ELSE IF Len(segmento) < MinSegmentLen THEN "short"
    ELSE "valid"

\* validateForm: "valid", or the reason of the warning it shows
ValidateForm(segmento) ==
    IF Trim(segmento) = <<>> THEN "empty"
    ELSE IF Len(Trim(segmento)) < MinSegmentLen THEN "short"
    ELSE "valid"

\* ------------------------------------------------------------- progress
Max(a, b) == IF a > b THEN a ELSE b
Min(a, b) == IF a < b THEN a ELSE b

UpdateProgress(percentage) ==
    /\ progressFill' = Max(0, Min(100, percentage))
    /\ progressPercentage' = percentage
    /\ pageTitle' = percentage

\* startProgressMonitoring, called when this.currentSessionId is cur
StartProgressMonitoring(cur) ==
    IF cur = Null
    THEN UNCHANGED pollVars
    ELSE /\ nextTimer <= MaxTimers
         /\ progressInterval' = nextTimer
         /\ timers' = timers \cup {nextTimer}
         /\ nextTimer' = nextTimer + 1
         /\ completionFetches' = 0

StopProgressMonitoring ==
    IF progressInterval # NoTimer
    THEN /\ timers' = timers \ {progressInterval}
         /\ progressInterval' = NoTimer
    ELSE UNCHANGED <<timers, progressInterval>>


\* -------------------------------------------------------- server answers
\* POST /api/analyze: the request throws, the status is not OK, the body says
\* success:false, or it says success:true with a session_id
AnalyzeOutcomes ==
    {[t |-> x, session_id |-> Null] : x \in {"throw", "http", "fail"}}
        \cup {[t |-> "ok", session_id |-> s] : s \in Sessions}

\* GET /api/progress/{id}: the request throws, a snapshot, or success:false with
\* or without an error message
ProgressOutcomes(percentages) ==
    {[t |-> "throw", percentage |-> 0, completed |-> FALSE, error |-> FALSE]}
        \cup {[t |-> "ok", percentage |-> p, completed |-> c, error |-> FALSE] :
                 p \in percentages, c \in BOOLEAN}
        \cup {[t |-> "fail", percentage |-> 0, completed |-> FALSE, error |-> e] :
                 e \in BOOLEAN}

\* pause, resume, continue: success:true, success:false, or the request throws
ActionOutcomes == {"ok", "fail", "throw"}

\* GET /api/sessions/{id}/status
StatusOutcomes ==
    {[t |-> x, status |-> Null] : x \in {"throw", "fail"}}
        \cup {[t |-> "ok", status |-> st] : st \in SessionStatuses}

\* GET /api/sessions: result.sessions is an array of sessions, each with its
\* session_id and status
SessionLists(statuses) ==
    UNION {[1..n -> [session_id : Sessions, status : statuses]] : n \in 0..MaxList}
ListOutcomes(lists) ==
    {[t |-> x, sessions |-> << >>] : x \in {"throw", "fail"}}
        \cup {[t |-> "ok", sessions |-> l] : l \in lists}

\* ------------------------------------------------------- start analysis
\* startAnalysis up to its await: validation, then the request
StartAnalysis(segmento, produto) ==
    /\ ev' = [op |-> "startAnalysis", segmento |-> segmento, produto |-> produto]
    /\ IF ValidateForm(segmento) # "valid"
       THEN /\ emitted' = <<"warning">>
            /\ UNCHANGED <<net, progressShown, progressVars>>
       ELSE /\ BagCardinality(net) < MaxInFlight
            /\ progressShown' = TRUE
            /\ UpdateProgress(0)
            /\ net' = Sent(Msg("analyze", Null, NoTimer))
            /\ emitted' = <<>>
    /\ UNCHANGED <<currentSessionId, storedSessionId, isPaused, sessions, listView,
                   controls, pollVars>>

\* the success branch starting the poll before the identifier is recorded
StartAnalysisPollsFirst(m, sid) ==
    /\ StartProgressMonitoring(currentSessionId)
    /\ currentSessionId' = sid
    /\ emitted' = <<"success">>
    /\ storedSessionId' = sid
    /\ UNCHANGED <<progressShown>>

\* result.success: the identifier is recorded, then the poll is started
StartAnalysisSucceeded(m, sid) ==
    /\ currentSessionId' = sid
    /\ emitted' = <<"success">>
    /\ storedSessionId' = sid
    /\ StartProgressMonitoring(sid)
    /\ UNCHANGED <<progressShown>>

\* the catch block dropping the session that was active
StartAnalysisFailedResets(m) ==
    /\ emitted' = <<"error">>
    /\ progressShown' = FALSE
    /\ currentSessionId' = Null
    /\ StopProgressMonitoring
    /\ UNCHANGED <<storedSessionId, nextTimer, completionFetches>>

\* the catch block
StartAnalysisFailed(m) ==
    /\ emitted' = <<"error">>
    /\ progressShown' = FALSE
    /\ UNCHANGED <<currentSessionId, storedSessionId, pollVars>>

\* the server gives a new analysis an identifier of its own
FreshSession(out) == out.t = "ok" => out.session_id # currentSessionId

AnalyzeResponse(m, out) ==
    /\ m \in Pending("analyze")
    /\ FreshSession(out)
    /\ ev' = [op |-> "analyzeResponse", ok |-> out.t = "ok", sid |-> out.session_id]
    /\ net' = Answered(m)
    /\ IF out.t = "ok" THEN StartAnalysisSucceeded(m, out.session_id)
                       ELSE StartAnalysisFailed(m)
    /\ UNCHANGED <<isPaused, sessions, listView, controls, progressVars>>

\* ------------------------------------------------------------- the poll
\* the session a firing of the interval asks about: this.currentSessionId, read
\* when the callback runs
ProgressUrl == currentSessionId

\* one firing of the interval callback, up to its await
Tick(t) ==
    /\ t \in timers
    /\ BagCardinality(net) < MaxInFlight
    /\ ev' = [op |-> "tick"]
    /\ net' = Sent(Msg("progress", ProgressUrl, t))
    /\ emitted' = <<>>
    /\ UNCHANGED <<currentSessionId, storedSessionId, isPaused, sessions, listView,
                   controls, pollVars, progressVars, progressShown>>

\* data.completed: the poll is stopped and the list is fetched again
ProgressCompleted(m) ==
    /\ StopProgressMonitoring
    /\ emitted' = <<"success">>
    /\ progressShown' = FALSE
    /\ controls' = "completed"
    /\ storedSessionId' = Null
    /\ net' = Answered(m) (+) SetToBag({Msg("list", Null, NoTimer)})
    /\ completionFetches' = Min(completionFetches + 1, CountCap)
    /\ UNCHANGED nextTimer

\* success:false
ProgressFailed(m, out) ==
    IF out.error
    THEN /\ StopProgressMonitoring
         /\ emitted' = <<"error">>
         /\ progressShown' = FALSE
         /\ net' = Answered(m)
         /\ UNCHANGED <<controls, storedSessionId, nextTimer, completionFetches>>
    ELSE /\ emitted' = <<>>
         /\ net' = Answered(m)
         /\ UNCHANGED <<controls, storedSessionId, pollVars, progressShown>>

\* the catch block stopping the poll as a failure response with a message does
ProgressThrewStops(m) ==
    /\ StopProgressMonitoring
    /\ emitted' = <<"error">>
    /\ progressShown' = FALSE
    /\ net' = Answered(m)
    /\ UNCHANGED <<controls, storedSessionId, nextTimer, completionFetches>>

\* the catch block of the interval callback: fetch or response.json() threw, and
\* the error goes to the console
ProgressThrew(m) ==
    /\ emitted' = <<>>
    /\ net' = Answered(m)
    /\ UNCHANGED <<controls, storedSessionId, pollVars, progressShown>>

\* a snapshot that is not the last re-fetching the session list
ProgressSnapshotRefetches(m) ==
    /\ emitted' = <<>>
    /\ net' = Answered(m) (+) SetToBag({Msg("list", Null, NoTimer)})
    /\ UNCHANGED <<controls, storedSessionId, pollVars, progressShown>>

\* data.success without data.completed: nothing follows updateProgress
ProgressSnapshot(m) ==
    /\ emitted' = <<>>
    /\ net' = Answered(m)
    /\ UNCHANGED <<controls, storedSessionId, pollVars, progressShown>>

\* the rest of the interval callback, run when the response arrives; the
\* interval that sent the request may have been cleared meanwhile
ProgressResponse(m, out) ==
    /\ m \in Pending("progress")
    /\ ev' = [op |-> "progressResponse", out |-> out.t, completed |-> out.completed,
              error |-> out.error, cancelled |-> m.timer \notin timers,
              percentage |-> out.percentage]
    /\ CASE out.t = "ok" ->
              /\ UpdateProgress(out.percentage)
              /\ IF out.completed
                 THEN ProgressCompleted(m)
                 ELSE ProgressSnapshot(m)
         [] out.t = "fail" ->
              /\ ProgressFailed(m, out)
              /\ UNCHANGED progressVars
         [] OTHER ->
              /\ ProgressThrew(m)
              /\ UNCHANGED progressVars
    /\ UNCHANGED <<currentSessionId, isPaused, sessions, listView>>

\* ------------------------------------------------------ pause and resume
\* Alt+P toggles on isPaused; the buttons are shown by updateSessionControls
PauseOffered == ~isPaused \/ controls = "running"
ResumeOffered == isPaused \/ controls = "paused"

PauseSession ==
    /\ PauseOffered
    /\ ev' = [op |-> "pauseSession"]
    /\ IF currentSessionId = Null
       THEN /\ emitted' = <<"warning">>
            /\ UNCHANGED net
       ELSE /\ BagCardinality(net) < MaxInFlight
            /\ net' = Sent(Msg("pause", currentSessionId, NoTimer))
            /\ emitted' = <<>>
    /\ UNCHANGED <<currentSessionId, storedSessionId, isPaused, sessions, listView,
                   controls, pollVars, progressVars, progressShown>>

PauseSucceeded ==
    /\ isPaused' = TRUE
    /\ StopProgressMonitoring
    /\ emitted' = <<"success">>
    /\ controls' = "paused"
    /\ UNCHANGED <<nextTimer, completionFetches>>

PauseResponse(m, out) ==
    /\ m \in Pending("pause")
    /\ ev' = [op |-> "pauseResponse", ok |-> out = "ok"]
    /\ net' = Answered(m)
    /\ IF out = "ok"
       THEN PauseSucceeded
       ELSE /\ emitted' = <<"error">>
            /\ UNCHANGED <<isPaused, controls, pollVars>>
    /\ UNCHANGED <<currentSessionId, storedSessionId, sessions, listView,
                   progressVars, progressShown>>

ResumeSession ==
    /\ ResumeOffered
    /\ ev' = [op |-> "resumeSession"]
    /\ IF currentSessionId = Null
       THEN /\ emitted' = <<"warning">>
            /\ UNCHANGED net
       ELSE /\ BagCardinality(net) < MaxInFlight
            /\ net' = Sent(Msg("resume", currentSessionId, NoTimer))
            /\ emitted' = <<>>
    /\ UNCHANGED <<currentSessionId, storedSessionId, isPaused, sessions, listView,
                   controls, pollVars, progressVars, progressShown>>

ResumeSucceeded ==
    /\ isPaused' = FALSE
    /\ StartProgressMonitoring(currentSessionId)
    /\ emitted' = <<"success">>
    /\ controls' = "running"

ResumeResponse(m, out) ==
    /\ m \in Pending("resume")
    /\ ev' = [op |-> "resumeResponse", ok |-> out = "ok"]
    /\ net' = Answered(m)
    /\ IF out = "ok"
       THEN ResumeSucceeded
       ELSE /\ emitted' = <<"error">>
            /\ UNCHANGED <<isPaused, controls, pollVars>>
    /\ UNCHANGED <<currentSessionId, storedSessionId, sessions, listView,
                   progressVars, progressShown>>

\* ------------------------------------------------------------- continue
\* Array.prototype.includes
Includes(array, x) == \E i \in 1..Len(array) : array[i] = x

\* getSessionActions offering continue for every session that is not running
GetSessionActionsNotRunning(status) ==
    (IF status # "running" THEN <<"continue">> ELSE << >>)
        \o (IF status = "completed" THEN <<"viewResults">> ELSE << >>)
        \o <<"delete">>

\* getSessionActions: the buttons rendered for a session of this status
GetSessionActions(status) ==
    (IF Includes(<<"paused", "error", "saved">>, status)
        THEN <<"continue">> ELSE << >>)
        \o (IF status = "completed" THEN <<"viewResults">> ELSE << >>)
        \o <<"delete">>

\* the continue button of a session in the rendered list
ContinueOffered(sid) ==
    /\ listView = "list"
    /\ sid \in DOMAIN sessions
    /\ Includes(GetSessionActions(sessions[sid]), "continue")

ContinueSession(sid) ==
    /\ ContinueOffered(sid)
    /\ BagCardinality(net) < MaxInFlight
    /\ ev' = [op |-> "continueSession"]
    /\ progressShown' = TRUE
    /\ UpdateProgress(0)
    /\ net' = Sent(Msg("continue", sid, NoTimer))
    /\ emitted' = <<>>
    /\ UNCHANGED <<currentSessionId, storedSessionId, isPaused, sessions, listView,
                   controls, pollVars>>

\* the success branch persisting the identifier without making it current
ContinueSucceededNotCurrent(sessionId) ==
    /\ storedSessionId' = sessionId
    /\ emitted' = <<"success">>
    /\ StartProgressMonitoring(currentSessionId)
    /\ UNCHANGED <<currentSessionId, progressShown>>

\* result.success: the session becomes the current and the persisted one, and
\* the poll is started
ContinueSucceeded(sessionId) ==
    /\ currentSessionId' = sessionId
    /\ storedSessionId' = sessionId
    /\ emitted' = <<"success">>
    /\ StartProgressMonitoring(sessionId)
    /\ UNCHANGED progressShown

ContinueResponse(m, out) ==
    /\ m \in Pending("continue")
    /\ ev' = [op |-> "continueResponse", ok |-> out = "ok", sid |-> m.sid]
    /\ net' = Answered(m)
    /\ IF out = "ok"
       THEN ContinueSucceeded(m.sid)
       ELSE /\ emitted' = <<"error">>
            /\ progressShown' = FALSE
            /\ UNCHANGED <<currentSessionId, storedSessionId, pollVars>>
    /\ UNCHANGED <<isPaused, sessions, listView, controls, progressVars>>

\* ------------------------------------------------------ startup recovery
\* checkSessionStatus after its await
StatusResponse(m, out) ==
    /\ m \in Pending("status")
    /\ ev' = [op |-> "statusResponse", out |-> out.t, status |-> out.status,
              sid |-> m.sid]
    /\ net' = Answered(m)
    /\ CASE out.t = "ok" /\ out.status = "running" ->
              /\ progressShown' = TRUE
              /\ StartProgressMonitoring(currentSessionId)
              /\ controls' = "running"
              /\ emitted' = <<"info">>
              /\ UNCHANGED storedSessionId
         [] out.t = "ok" /\ out.status = "paused" ->
              /\ controls' = "paused"
              /\ emitted' = <<"info">>
              /\ UNCHANGED <<storedSessionId, pollVars, progressShown>>
         [] out.t = "ok" /\ out.status = "completed" ->
              /\ storedSessionId' = Null
              /\ emitted' = <<"success">>
              /\ UNCHANGED <<controls, pollVars, progressShown>>
         [] out.t = "ok" /\ out.status = "error" ->
              /\ emitted' = <<"warning">>
              /\ UNCHANGED <<storedSessionId, controls, pollVars, progressShown>>
         [] out.t = "throw" ->
              /\ storedSessionId' = Null
              /\ emitted' = <<>>
              /\ UNCHANGED <<controls, pollVars, progressShown>>
         [] OTHER ->
              /\ emitted' = <<>>
              /\ UNCHANGED <<storedSessionId, controls, pollVars, progressShown>>
    /\ UNCHANGED <<currentSessionId, isPaused, sessions, listView, progressVars>>

\* --------------------------------------------------------- session list
\* Map.prototype.set
MapSet(map, key, value) ==
    [k \in DOMAIN map \cup {key} |-> IF k = key THEN value ELSE map[k]]

\* result.sessions.forEach(session => this.sessions.set(session.session_id, session))
RECURSIVE SetEach(_, _)
SetEach(map, list) ==
    IF list = << >> THEN map
    ELSE SetEach(MapSet(map, Head(list).session_id, Head(list).status), Tail(list))

\* the mapping after a list was loaded without clearing it first
LoadedInto(map, list) == SetEach(map, list)

\* this.sessions.clear(), then every session of the answer is set
Loaded(map, list) == SetEach(<< >>, list)

\* renderSessionsList: what #sessionsList shows for a mapping
RenderSessionsList(map) == IF DOMAIN map = {} THEN "empty" ELSE "list"

\* loadSavedSessions after its await
ListResponse(m, out) ==
    /\ m \in Pending("list")
    /\ ev' = [op |-> "listResponse", ok |-> out.t = "ok", list |-> out.sessions]
    /\ net' = Answered(m)
    /\ IF out.t = "ok"
       THEN /\ sessions' = Loaded(sessions, out.sessions)
            /\ listView' = RenderSessionsList(sessions')
       ELSE /\ listView' = "empty"
            /\ UNCHANGED sessions
    /\ emitted' = <<>>
    /\ UNCHANGED <<currentSessionId, storedSessionId, isPaused, controls, pollVars,
                   progressVars, progressShown>>

\* the refresh button
LoadSavedSessions ==
    /\ BagCardinality(net) < MaxInFlight
    /\ ev' = [op |-> "loadSavedSessions"]
    /\ net' = Sent(Msg("list", Null, NoTimer))
    /\ emitted' = <<>>
    /\ UNCHANGED <<currentSessionId, storedSessionId, isPaused, sessions, listView,
                   controls, pollVars, progressVars, progressShown>>

\* ----------------------------------------------- save, delete, clear all
SaveSession ==
    /\ ev' = [op |-> "saveSession"]
    /\ IF currentSessionId = Null
       THEN /\ emitted' = <<"warning">>
            /\ UNCHANGED net
       ELSE /\ BagCardinality(net) < MaxInFlight
            /\ net' = Sent(Msg("save", currentSessionId, NoTimer))
            /\ emitted' = <<>>
    /\ UNCHANGED <<currentSessionId, storedSessionId, isPaused, sessions, listView,
                   controls, pollVars, progressVars, progressShown>>

\* saveSession after its await: on success the list is fetched again
SaveResponse(m, out) ==
    /\ m \in Pending("save")
    /\ ev' = [op |-> "saveResponse", ok |-> out = "ok"]
    /\ IF out = "ok"
       THEN /\ emitted' = <<"success">>
            /\ net' = Answered(m) (+) SetToBag({Msg("list", Null, NoTimer)})
       ELSE /\ emitted' = <<"error">>
            /\ net' = Answered(m)
    /\ UNCHANGED <<currentSessionId, storedSessionId, isPaused, sessions, listView,
                   controls, pollVars, progressVars, progressShown>>

\* the delete button of a session in the rendered list
DeleteOffered(sid) ==
    /\ listView = "list"
    /\ sid \in DOMAIN sessions
    /\ Includes(GetSessionActions(sessions[sid]), "delete")

\* deleteSession sending its request whatever the answer to confirm()
DeleteSessionUnasked(sid, confirmed) ==
    /\ DeleteOffered(sid)
    /\ ev' = [op |-> "deleteSession", sid |-> sid, confirmed |-> confirmed]
    /\ BagCardinality(net) < MaxInFlight
    /\ net' = Sent(Msg("delete", sid, NoTimer))
    /\ emitted' = <<>>
    /\ UNCHANGED <<currentSessionId, storedSessionId, isPaused, sessions, listView,
                   controls, pollVars, progressVars, progressShown>>

\* deleteSession up to its await; confirmed is the answer to confirm()
DeleteSession(sid, confirmed) ==
    /\ DeleteOffered(sid)
    /\ ev' = [op |-> "deleteSession", sid |-> sid, confirmed |-> confirmed]
    /\ IF confirmed
       THEN /\ BagCardinality(net) < MaxInFlight
            /\ net' = Sent(Msg("delete", sid, NoTimer))
       ELSE UNCHANGED net
    /\ emitted' = <<>>
    /\ UNCHANGED <<currentSessionId, storedSessionId, isPaused, sessions, listView,
                   controls, pollVars, progressVars, progressShown>>

\* deleteSession after its await, dropping the current session when it is the
\* one deleted: its poll is stopped and both identifiers are cleared
DeleteResponseDropsCurrent(m, out) ==
    /\ m \in Pending("delete")
    /\ ev' = [op |-> "deleteResponse", ok |-> out = "ok", sid |-> m.sid]
    /\ net' = Answered(m)
    /\ IF out = "ok"
       THEN /\ emitted' = <<"success">>
            /\ sessions' = [s \in DOMAIN sessions \ {m.sid} |-> sessions[s]]
            /\ listView' = RenderSessionsList(sessions')
            /\ IF m.sid = currentSessionId
               THEN /\ StopProgressMonitoring
                    /\ currentSessionId' = Null
                    /\ storedSessionId' = Null
                    /\ UNCHANGED <<nextTimer, completionFetches>>
               ELSE UNCHANGED <<currentSessionId, storedSessionId, pollVars>>
       ELSE /\ emitted' = <<"error">>
            /\ UNCHANGED <<sessions, listView, currentSessionId, storedSessionId,
                           pollVars>>
    /\ UNCHANGED <<isPaused, controls, progressVars, progressShown>>

\* deleteSession after its await
DeleteResponse(m, out) ==
    /\ m \in Pending("delete")
    /\ ev' = [op |-> "deleteResponse", ok |-> out = "ok", sid |-> m.sid]
    /\ net' = Answered(m)
    /\ IF out = "ok"
       THEN /\ emitted' = <<"success">>
            /\ sessions' = [s \in DOMAIN sessions \ {m.sid} |-> sessions[s]]
            /\ listView' = RenderSessionsList(sessions')
       ELSE /\ emitted' = <<"error">>
            /\ UNCHANGED <<sessions, listView>>
    /\ UNCHANGED <<currentSessionId, storedSessionId, isPaused, controls, pollVars,
                   progressVars, progressShown>>

\* clearAllSessions up to its await
ClearAllSessions(confirmed) ==
    /\ ev' = [op |-> "clearAllSessions", confirmed |-> confirmed]
    /\ IF confirmed
       THEN /\ BagCardinality(net) < MaxInFlight
            /\ net' = Sent(Msg("clear", Null, NoTimer))
       ELSE UNCHANGED net
    /\ emitted' = <<>>
    /\ UNCHANGED <<currentSessionId, storedSessionId, isPaused, sessions, listView,
                   controls, pollVars, progressVars, progressShown>>

ClearResponse(m, out) ==
    /\ m \in Pending("clear")
    /\ ev' = [op |-> "clearResponse", ok |-> out = "ok"]
    /\ net' = Answered(m)
    /\ IF out = "ok"
       THEN /\ emitted' = <<"success">>
            /\ sessions' = << >>
            /\ listView' = "empty"
       ELSE /\ emitted' = <<"error">>
            /\ UNCHANGED <<sessions, listView>>
    /\ UNCHANGED <<currentSessionId, storedSessionId, isPaused, controls, pollVars,
                   progressVars, progressShown>>

\* ---------------------------------------------------------- file upload
\* validateFile rejecting a file of exactly maxSize
ValidateFileBelowLimit(file) ==
    IF file.size >= MaxFileSize THEN "size"
    ELSE IF ~Includes(AllowedTypes, file.type) THEN "type"
    ELSE "valid"

\* validateFile: "valid", or the reason of the warning it shows
ValidateFile(file) ==
    IF file.size > MaxFileSize THEN "size"
    ELSE IF ~Includes(AllowedTypes, file.type) THEN "type"
    ELSE "valid"

\* files.forEach of handleFiles: each file is validated and, when valid, handed
\* to uploadFile, which runs up to its fetch; n is the requests in flight and
\* e the notifications shown so far
RECURSIVE ForEachFile(_, _, _)
ForEachFile(files, n, e) ==
    IF files = << >> THEN [net |-> n, emitted |-> e]
    ELSE IF ValidateFile(Head(files)) = "valid"
         THEN ForEachFile(Tail(files),
                          n (+) SetToBag({Msg("upload", Head(files).name, NoTimer)}),
                          e)
         ELSE ForEachFile(Tail(files), n, Append(e, "warning"))

\* a drop on the drop zone, or a change of the file input
HandleFiles(files) ==
    LET done == ForEachFile(files, net, << >>)
    IN  /\ BagCardinality(done.net) <= MaxInFlight
        /\ ev' = [op |-> "handleFiles", files |-> files]
        /\ net' = done.net
        /\ emitted' = done.emitted
        /\ UNCHANGED <<currentSessionId, storedSessionId, isPaused, sessions,
                       listView, controls, pollVars, progressVars, progressShown>>

\* uploadFile after its await.  The class has no addFileToList method: the call
\* that follows the success notification throws a TypeError inside the try
\* block, and the catch block shows it
UploadResponse(m, out) ==
    /\ m \in Pending("upload")
    /\ ev' = [op |-> "uploadResponse", ok |-> out = "ok", name |-> m.sid]
    /\ net' = Answered(m)
    /\ emitted' = IF out = "ok" THEN <<"success", "error">> ELSE <<"error">>
    /\ UNCHANGED <<currentSessionId, storedSessionId, isPaused, sessions, listView,
                   controls, pollVars, progressVars, progressShown>>

\* ---------------------------------------------------------- notifications
\* Array.prototype.indexOf, from 1; 0 when the element is absent
IndexOf(array, x) ==
    IF Includes(array, x)
    THEN CHOOSE i \in 1..Len(array) :
             array[i] = x /\ \A j \in 1..(i - 1) : array[j] # x
    ELSE 0

\* Array.prototype.splice(index, 1), and Element.remove() on the children
Without(array, x) ==
    LET i == IndexOf(array, x)
    IN  IF i = 0 THEN array
        ELSE SubSeq(array, 1, i - 1) \o SubSeq(array, i + 1, Len(array))

Timeout(kind, el) == [kind |-> kind, el |-> el]

\* showNotification reusing the element of an equal notification still shown
ShowNotificationCoalesced(message, type) ==
    LET same == {e \in DOMAIN elements :
                    /\ Includes(notifications, e)
                    /\ elements[e] = [message |-> message, type |-> type]}
        el == Len(elements) + 1
    IN  /\ el <= MaxElements
        /\ ev' = [op |-> "showNotification", message |-> message, type |-> type]
        /\ emitted' = <<type>>
        /\ elements' = Append(elements, [message |-> message, type |-> type])
        /\ IF same = {}
           THEN /\ container' = Append(container, el)
                /\ notifications' = Append(notifications, el)
                /\ timeouts' = timeouts (+) SetToBag({Timeout("auto", el)})
           ELSE UNCHANGED <<container, notifications, timeouts>>
        /\ UNCHANGED <<controllerVars, historyVars, formVars>>

\* showNotification: createNotification makes a new element, which is appended
\* to the container and pushed, and its removal is scheduled
ShowNotification(message, type) ==
    LET el == Len(elements) + 1
    IN  /\ el <= MaxElements
        /\ ev' = [op |-> "showNotification", message |-> message, type |-> type]
        /\ emitted' = <<type>>
        /\ elements' = Append(elements, [message |-> message, type |-> type])
        /\ container' = Append(container, el)
        /\ notifications' = Append(notifications, el)
        /\ timeouts' = timeouts (+) SetToBag({Timeout("auto", el)})
        /\ UNCHANGED <<controllerVars, historyVars, formVars>>

\* removeNotification applied in turn to each element of a list, t being the
\* pending timeouts: an element that has a parent starts to fade out
RECURSIVE RemoveEach(_, _)
RemoveEach(list, t) ==
    IF list = << >> THEN t
    ELSE RemoveEach(Tail(list),
                    IF Includes(container, Head(list))
                    THEN t (+) SetToBag({Timeout("fade", Head(list))})
                    ELSE t)

RemoveNotification(el, t) == RemoveEach(<<el>>, t)

Fading(t) == BagCardinality(t) - Cardinality({x \in BagToSet(t) : x.kind = "auto"})

\* the timeout set by showNotification fires
AutoRemove(el) ==
    /\ BagIn(Timeout("auto", el), timeouts)
    /\ timeouts' = RemoveNotification(el, timeouts (-) SetToBag({Timeout("auto", el)}))
    /\ Fading(timeouts') <= MaxFading
    /\ ev' = [op |-> "autoRemove", el |-> el]
    /\ emitted' = << >>
    /\ UNCHANGED <<controllerVars, historyVars, formVars, notifications, container, elements>>

\* a click on the close button of an element in the document
CloseNotification(el) ==
    /\ Includes(container, el)
    /\ timeouts' = RemoveNotification(el, timeouts)
    /\ Fading(timeouts') <= MaxFading
    /\ ev' = [op |-> "closeNotification", el |-> el]
    /\ emitted' = << >>
    /\ UNCHANGED <<controllerVars, historyVars, formVars, notifications, container, elements>>

\* the Escape key
ClearNotifications ==
    /\ timeouts' = RemoveEach(notifications, timeouts)
    /\ Fading(timeouts') <= MaxFading
    /\ ev' = [op |-> "clearNotifications"]
    /\ emitted' = << >>
    /\ UNCHANGED <<controllerVars, historyVars, formVars, notifications, container, elements>>

\* the timeout of removeNotification splicing at the index indexOf gave without
\* looking at it: splice(-1, 1) takes the last element out
FadedOutUnguarded(el) ==
    /\ BagIn(Timeout("fade", el), timeouts)
    /\ timeouts' = timeouts (-) SetToBag({Timeout("fade", el)})
    /\ container' = Without(container, el)
    /\ notifications' = IF IndexOf(notifications, el) = 0
                        THEN SubSeq(notifications, 1, Len(notifications) - 1)
                        ELSE Without(notifications, el)
    /\ ev' = [op |-> "fadedOut", el |-> el]
    /\ emitted' = << >>
    /\ UNCHANGED <<controllerVars, historyVars, formVars, elements>>

\* the timeout set by removeNotification fires, 300 ms later
FadedOut(el) ==
    /\ BagIn(Timeout("fade", el), timeouts)
    /\ timeouts' = timeouts (-) SetToBag({Timeout("fade", el)})
    /\ container' = Without(container, el)
    /\ notifications' = Without(notifications, el)
    /\ ev' = [op |-> "fadedOut", el |-> el]
    /\ emitted' = << >>
    /\ UNCHANGED <<controllerVars, historyVars, formVars, elements>>

\* ------------------------------------------------------- form auto-save
\* the characters of a JSON string between its quotes: JSON.stringify puts a
\* backslash before a quote and before a backslash
RECURSIVE Escape(_)
Escape(text) ==
    IF text = << >> THEN << >>
    ELSE (IF Head(text) \in {"\"", "\\"} THEN <<"\\", Head(text)>>
                                          ELSE <<Head(text)>>)
             \o Escape(Tail(text))

\* JSON.stringify of a string value
JsonString(text) == <<"\"">> \o Escape(text) \o <<"\"">>

\* what JSON.parse reads between the quotes of a string: ok is FALSE where it
\* throws a SyntaxError, on a bare quote and on a backslash that escapes nothing
RECURSIVE Unescape(_)
Unescape(chars) ==
    IF chars = << >> THEN [ok |-> TRUE, text |-> << >>]
    ELSE IF Head(chars) = "\""
         THEN [ok |-> FALSE, text |-> << >>]
    ELSE IF Head(chars) = "\\"
         THEN IF Len(chars) < 2 \/ chars[2] \notin {"\"", "\\"}
              THEN [ok |-> FALSE, text |-> << >>]
              ELSE LET rest == Unescape(Tail(Tail(chars)))
                   IN  [ok |-> rest.ok, text |-> <<chars[2]>> \o rest.text]
    ELSE LET rest == Unescape(Tail(chars))
         IN  [ok |-> rest.ok, text |-> <<Head(chars)>> \o rest.text]

\* JSON.parse of a string value
JsonParseString(chars) ==
    IF Len(chars) < 2 \/ Head(chars) # "\"" \/ chars[Len(chars)] # "\""
    THEN [ok |-> FALSE, text |-> << >>]
    ELSE Unescape(SubSeq(chars, 2, Len(chars) - 1))

\* new FormData(form).entries(): name and value of every field, in document order
FormDataEntries(fields) ==
    [i \in 1..Len(FormFields) |-> [key |-> FormFields[i], value |-> fields[FormFields[i]]]]

\* Object.fromEntries: a later entry of a name replaces the value of the earlier
\* one, in its place
RECURSIVE FromEntries(_, _)
FromEntries(object, entries) ==
    IF entries = << >> THEN object
    ELSE LET e == Head(entries)
             at == {i \in 1..Len(object) : object[i].key = e.key}
         IN  FromEntries(IF at = {} THEN Append(object, e)
                         ELSE [i \in 1..Len(object) |->
                                  IF i \in at THEN e ELSE object[i]],
                         Tail(entries))

\* JSON.stringify of an object of strings: its members in order, each value
\* as the JSON text of a string
JsonStringify(object) ==
    [i \in 1..Len(object) |->
        [key |-> object[i].key, value |-> JsonString(object[i].value)]]

\* JSON.parse of such a text: ok is FALSE where it throws
JsonParse(json) ==
    [ok |-> \A i \in 1..Len(json) : JsonParseString(json[i].value).ok,
     object |-> [i \in 1..Len(json) |->
                    [key |-> json[i].key,
                     value |-> JsonParseString(json[i].value).text]]]

\* Object.entries(data).forEach: the field of each name, when the document has
\* one, takes the value
RECURSIVE SetEachInput(_, _)
SetEachInput(fields, entries) ==
    IF entries = << >> THEN fields
    ELSE SetEachInput(IF Head(entries).key \in DOMAIN fields
                      THEN [fields EXCEPT ![Head(entries).key] = Head(entries).value]
                      ELSE fields,
                      Tail(entries))

\* localStorage.getItem('analysisFormData') is null, or is a JSON text
NoFormData == [present |-> FALSE, json |-> << >>]
Stored(json) == [present |-> TRUE, json |-> json]

\* autoSaveForm keeping the members of the stored object the form leaves empty
SavedFormDataMerged(fields, stored) ==
    LET filled == SelectSeq(FormDataEntries(fields), LAMBDA e : e.value # << >>)
        before == IF ~stored.present \/ ~JsonParse(stored.json).ok THEN << >>
                  ELSE JsonParse(stored.json).object
    IN  Stored(JsonStringify(FromEntries(before, filled)))

\* autoSaveForm: what it stores for the form, whatever was stored before
SavedFormData(fields, stored) ==
    Stored(JsonStringify(FromEntries(<< >>, FormDataEntries(fields))))

\* restoreFormData: the form after it ran on what is stored
RestoreFormData(fields, stored) ==
    IF ~stored.present THEN fields
    ELSE IF ~JsonParse(stored.json).ok THEN fields
    ELSE SetEachInput(fields, JsonParse(stored.json).object)

\* autoSaveForm
AutoSaveForm ==
    /\ storedFormData' = SavedFormData(form, storedFormData)
    /\ emitted' = <<"info">>
    /\ UNCHANGED form

\* the user changes a field: the change handler schedules a save 1 second later
ChangeField(name, value) ==
    /\ form[name] # value
    /\ saveTimeouts < MaxSaveTimeouts
    /\ form' = [form EXCEPT ![name] = value]
    /\ saveTimeouts' = saveTimeouts + 1
    /\ ev' = [op |-> "changeField"]
    /\ emitted' = << >>
    /\ UNCHANGED <<storedFormData, controllerVars, historyVars, notifyVars>>

\* the timeout set by the change handler fires
ChangeSave ==
    /\ saveTimeouts > 0
    /\ saveTimeouts' = saveTimeouts - 1
    /\ AutoSaveForm
    /\ ev' = [op |-> "autoSaveForm"]
    /\ UNCHANGED <<controllerVars, historyVars, notifyVars>>

\* the 30 second interval set by setupAutoSave fires
AutoSaveTick ==
    /\ AutoSaveForm
    /\ ev' = [op |-> "autoSaveForm"]
    /\ UNCHANGED <<saveTimeouts, controllerVars, historyVars, notifyVars>>

\* restoreLastSession after its await: checkSessionStatus has returned and the
\* form is restored
RestoreLastSession(m, out) ==
    /\ StatusResponse(m, out)
    /\ form' = RestoreFormData(form, storedFormData)
    /\ UNCHANGED <<storedFormData, saveTimeouts, historyVars, notifyVars>>

\* ----------------------------------------------------------- the system
\* the constructor and init(): the list is requested, and the status of the
\* identifier left in localStorage by an earlier page, if there is one
Init ==
    /\ storedSessionId \in {Null, "s1"}
    /\ currentSessionId = storedSessionId
    /\ progressInterval = NoTimer
    /\ isPaused = FALSE
    /\ sessions = << >>
    /\ timers = {}
    /\ nextTimer = 1
    /\ net = IF storedSessionId = Null
             THEN SetToBag({Msg("list", Null, NoTimer)})
             ELSE SetToBag({Msg("list", Null, NoTimer),
                            Msg("status", storedSessionId, NoTimer)})
    /\ progressFill = 0
    /\ progressPercentage = 0
    /\ pageTitle = 0
    /\ progressShown = FALSE
    /\ controls = "initial"
    /\ listView = "empty"
    /\ emitted = <<>>
    /\ completionFetches = 0
    /\ ev = [op |-> "init"]
    /\ displayBefore = NoDisplayBefore
    /\ notifications = << >>
    /\ container = << >>
    /\ elements = << >>
    /\ timeouts = EmptyBag
    /\ form = BlankForm
    /\ storedFormData = NoFormData
    /\ saveTimeouts = 0
    /\ lastDelete = NoDelete

\* every callback of the controller, the inputs drawn from the given sets
Controller(segments, products, percentages, lists) ==
    \/ \E segmento \in segments, produto \in products :
           StartAnalysis(segmento, produto) /\ UNCHANGED unfollowed
    \/ \E m \in InFlight, out \in AnalyzeOutcomes :
           AnalyzeResponse(m, out) /\ UNCHANGED unfollowed
    \/ \E t \in timers : Tick(t) /\ UNCHANGED unfollowed
    \/ \E m \in InFlight, out \in ProgressOutcomes(percentages) :
           ProgressResponse(m, out) /\ UNCHANGED unfollowed
    \/ PauseSession /\ UNCHANGED unfollowed
    \/ \E m \in InFlight, out \in ActionOutcomes :
           PauseResponse(m, out) /\ UNCHANGED unfollowed
    \/ ResumeSession /\ UNCHANGED unfollowed
    \/ \E m \in InFlight, out \in ActionOutcomes :
           ResumeResponse(m, out) /\ UNCHANGED unfollowed
    \/ \E sid \in Sessions : ContinueSession(sid) /\ UNCHANGED unfollowed
    \/ \E m \in InFlight, out \in ActionOutcomes :
           ContinueResponse(m, out) /\ UNCHANGED unfollowed
    \/ \E m \in InFlight, out \in StatusOutcomes :
           StatusResponse(m, out) /\ UNCHANGED unfollowed
    \/ \E m \in InFlight, out \in ListOutcomes(lists) :
           ListResponse(m, out) /\ UNCHANGED unfollowed

\* the polling lifecycle: one valid form, one snapshot value and one list on the
\* server
PollSegments == {<<"a", "a", "a">>}
PollProducts == {"T"}
PollPercentages == {45}
PollLists == {<<[session_id |-> "s1", status |-> "paused"],
                [session_id |-> "s2", status |-> "running"]>>}

Next == Controller(PollSegments, PollProducts, PollPercentages, PollLists)

Spec == Init /\ [][Next]_vars

\* the form: every segment text up to MaxLen and both product values, submitted
\* to a controller that starts sessions and recovers one at startup, within the
\* 3 seconds before an interval it started fires
FormNext ==
    \/ \E segmento \in SegmentValues, produto \in ProductValues :
           StartAnalysis(segmento, produto) /\ UNCHANGED unfollowed
    \/ \E m \in InFlight, out \in AnalyzeOutcomes :
           AnalyzeResponse(m, out) /\ UNCHANGED unfollowed
    \/ \E m \in InFlight, out \in StatusOutcomes :
           StatusResponse(m, out) /\ UNCHANGED unfollowed
    \/ \E m \in InFlight, out \in ListOutcomes(PollLists) :
           ListResponse(m, out) /\ UNCHANGED unfollowed

SpecForm == Init /\ [][FormNext]_vars

\* the actions on a session: a session recovered at startup or continued from
\* the list is paused, resumed, saved and deleted, and the list cleared, within
\* the 3 seconds before an interval fires; displayBefore follows the display a
\* continue click found
ActionsNext ==
    \/ PauseSession /\ UNCHANGED unfollowed
    \/ \E m \in InFlight, out \in ActionOutcomes :
           PauseResponse(m, out) /\ UNCHANGED unfollowed
    \/ ResumeSession /\ UNCHANGED unfollowed
    \/ \E m \in InFlight, out \in ActionOutcomes :
           ResumeResponse(m, out) /\ UNCHANGED unfollowed
    \/ \E sid \in Sessions : 
           /\ ContinueSession(sid)
           /\ displayBefore' = DisplayFound
           /\ UNCHANGED <<notifyVars, formVars, lastDelete>>
    \/ \E m \in InFlight, out \in ActionOutcomes :
           /\ ContinueResponse(m, out)
           /\ displayBefore' = IF Pending("continue") = {m} /\ net[m] = 1
                                THEN NoDisplayBefore ELSE displayBefore
           /\ UNCHANGED <<notifyVars, formVars, lastDelete>>
    \/ SaveSession /\ UNCHANGED unfollowed
    \/ \E m \in InFlight, out \in ActionOutcomes :
           SaveResponse(m, out) /\ UNCHANGED unfollowed
    \/ \E sid \in Sessions, confirmed \in BOOLEAN :
           DeleteSession(sid, confirmed) /\ UNCHANGED unfollowed
    \/ \E m \in InFlight, out \in ActionOutcomes :
           DeleteResponse(m, out) /\ UNCHANGED unfollowed
    \/ \E confirmed \in BOOLEAN :
           ClearAllSessions(confirmed) /\ UNCHANGED unfollowed
    \/ \E m \in InFlight, out \in ActionOutcomes :
           ClearResponse(m, out) /\ UNCHANGED unfollowed
    \/ \E m \in InFlight, out \in StatusOutcomes :
           StatusResponse(m, out) /\ UNCHANGED unfollowed
    \/ \E m \in InFlight, out \in ListOutcomes(PollLists) :
           ListResponse(m, out) /\ UNCHANGED unfollowed

SpecActions == Init /\ [][ActionsNext]_vars

\* the session list: every answer of up to MaxList sessions, a status the client
\* does not know included, fetched at startup and by the refresh button
ListNext ==
    \/ LoadSavedSessions /\ UNCHANGED unfollowed
    \/ \E m \in InFlight, out \in ListOutcomes(SessionLists(ListedStatuses)) :
           ListResponse(m, out) /\ UNCHANGED unfollowed
    \/ \E m \in InFlight, out \in StatusOutcomes :
           StatusResponse(m, out) /\ UNCHANGED unfollowed

SpecList == Init /\ [][ListNext]_vars

\* file upload: every batch of up to MaxBatch files, while the requests of the
\* startup are answered
UploadNext ==
    \/ \E files \in Batches : HandleFiles(files) /\ UNCHANGED unfollowed
    \/ \E m \in InFlight, out \in ActionOutcomes :
           UploadResponse(m, out) /\ UNCHANGED unfollowed
    \/ \E m \in InFlight, out \in StatusOutcomes :
           StatusResponse(m, out) /\ UNCHANGED unfollowed
    \/ \E m \in InFlight, out \in ListOutcomes(PollLists) :
           ListResponse(m, out) /\ UNCHANGED unfollowed

SpecUpload == Init /\ [][UploadNext]_vars

\* the notifications: showNotification called by any callback with any message
\* and severity, the timeouts firing in any order, the close button and Escape
NotifyNext ==
    \/ \E message \in Messages, type \in Severities : ShowNotification(message, type)
    \/ \E el \in 1..MaxElements : AutoRemove(el)
    \/ \E el \in 1..MaxElements : CloseNotification(el)
    \/ ClearNotifications
    \/ \E el \in 1..MaxElements : FadedOut(el)

SpecNotify == Init /\ [][NotifyNext]_vars

\* a timeout that is pending fires: the one showNotification set after its
\* duration, the one removeNotification set after 300 ms
TimeoutsFire ==
    \A el \in 1..MaxElements : WF_vars(AutoRemove(el)) /\ WF_vars(FadedOut(el))

\* the dismissals: notifications of one message and severity, which play no
\* part in a removal, are shown, closed, cleared and time out, and every
\* pending timeout fires
DismissNext ==
    \/ ShowNotification("saved", "info")
    \/ \E el \in 1..MaxElements : AutoRemove(el)
    \/ \E el \in 1..MaxElements : CloseNotification(el)
    \/ ClearNotifications
    \/ \E el \in 1..MaxElements : FadedOut(el)

SpecDismiss == Init /\ [][DismissNext]_vars /\ TimeoutsFire

\* the progress display: a session recovered at startup is polled and the server
\* reports any percentage, those outside 0..100 included
ProgressNext ==
    \/ \E t \in timers : Tick(t) /\ UNCHANGED unfollowed
    \/ \E m \in InFlight, out \in ProgressOutcomes(Percentages) :
           ProgressResponse(m, out) /\ UNCHANGED unfollowed
    \/ \E m \in InFlight, out \in StatusOutcomes :
           StatusResponse(m, out) /\ UNCHANGED unfollowed
    \/ \E m \in InFlight, out \in ListOutcomes(PollLists) :
           ListResponse(m, out) /\ UNCHANGED unfollowed

SpecProgress == Init /\ [][ProgressNext]_vars

\* what an earlier page may have left in localStorage['analysisFormData']:
\* nothing, or the save of any form
PersistedFormData == {NoFormData} \cup {SavedFormData(f, NoFormData) : f \in Forms}

\* a page load that finds form data stored: without a stored session identifier
\* restoreLastSession restores the form before init() returns, with one it
\* awaits the status first
AutoSaveInit ==
    /\ storedSessionId \in {Null, "s1"}
    /\ currentSessionId = storedSessionId
    /\ progressInterval = NoTimer
    /\ isPaused = FALSE
    /\ sessions = << >>
    /\ timers = {}
    /\ nextTimer = 1
    /\ net = IF storedSessionId = Null
             THEN SetToBag({Msg("list", Null, NoTimer)})
             ELSE SetToBag({Msg("list", Null, NoTimer),
                            Msg("status", storedSessionId, NoTimer)})
    /\ progressFill = 0
    /\ progressPercentage = 0
    /\ pageTitle = 0
    /\ progressShown = FALSE
    /\ controls = "initial"
    /\ listView = "empty"
    /\ emitted = <<>>
    /\ completionFetches = 0
    /\ ev = [op |-> "init"]
    /\ displayBefore = NoDisplayBefore
    /\ notifications = << >>
    /\ container = << >>
    /\ elements = << >>
    /\ timeouts = EmptyBag
    /\ storedFormData \in PersistedFormData
    /\ form = IF storedSessionId = Null
              THEN RestoreFormData(BlankForm, storedFormData)
              ELSE BlankForm
    /\ saveTimeouts = 0
    /\ lastDelete = NoDelete

\* the form: the user changes fields, the saves fire, and the form is restored
\* when the startup status request is answered
AutoSaveNext ==
    \/ \E i \in 1..Len(FormFields), value \in FieldValues :
           ChangeField(FormFields[i], value)
    \/ ChangeSave
    \/ AutoSaveTick
    \/ \E m \in InFlight, out \in StatusOutcomes : RestoreLastSession(m, out)

SpecAutoSave == AutoSaveInit /\ [][AutoSaveNext]_vars

\* deleting while the list is fetched: the refresh button, the delete button and
\* their answers; lastDelete follows the delete confirmed while no other was in
\* flight, and whether a list was requested after that click
DeleteNext ==
    \/ /\ LoadSavedSessions
       /\ lastDelete' = [lastDelete EXCEPT !.listedSince = lastDelete.sid # Null]
       /\ UNCHANGED <<displayBefore, notifyVars, formVars>>
    \/ \E m \in InFlight, out \in ListOutcomes(PollLists) :
           ListResponse(m, out) /\ UNCHANGED unfollowed
    \/ \E sid \in Sessions, confirmed \in BOOLEAN :
           /\ DeleteSession(sid, confirmed)
           /\ lastDelete' = IF ~confirmed THEN lastDelete
                            ELSE IF Pending("delete") # {} THEN NoDelete
                            ELSE [sid |-> sid, done |-> FALSE, listedSince |-> FALSE]
           /\ UNCHANGED <<displayBefore, notifyVars, formVars>>
    \/ \E m \in InFlight, out \in ActionOutcomes :
           /\ DeleteResponse(m, out)
           /\ lastDelete' = IF out = "ok" /\ m.sid = lastDelete.sid
                            THEN [lastDelete EXCEPT !.done = TRUE]
                            ELSE lastDelete
           /\ UNCHANGED <<displayBefore, notifyVars, formVars>>
    \/ \E m \in InFlight, out \in StatusOutcomes :
           StatusResponse(m, out) /\ UNCHANGED unfollowed

SpecDelete == Init /\ [][DeleteNext]_vars

\* ================================================================ claims

\* C1: at most one poll timer of the controller is live at any time.
C1_AtMostOnePollTimer == Cardinality(timers) <= 1

\* C2: a completed:true response stops the poll timer, removes the persisted
\* identifier, emits a success notification and fetches the session list, and
\* the list is fetched once per completion, never a second time.
C2_CompletionRefetchesOnce ==
    /\ (ev.op = "progressResponse" /\ ev.out = "ok" /\ ev.completed)
          => /\ progressInterval = NoTimer
             /\ storedSessionId = Null
             /\ emitted = <<"success">>
             /\ completionFetches >= 1
    /\ completionFetches <= 1

\* C3: a progress response whose interval was cleared before it arrived is
\* unobserved: no display update, no notification, no change of the persisted
\* identifier or of the timers, no list fetch.
C3_CancelledResponseUnobserved ==
    [][(ev'.op = "progressResponse" /\ ev'.cancelled)
          => /\ emitted' = <<>>
             /\ BagCardinality(net') = BagCardinality(net) - 1
             /\ UNCHANGED <<progressVars, progressShown, controls, storedSessionId,
                            timers, progressInterval>>]_vars

\* C4: a progress request is sent for the current session, and when a start or
\* a continue makes another session current, every interval that was polling
\* is cancelled.
C4_SwitchCancelsPreviousPoll ==
    [][/\ ev'.op = "tick"
          => \E t \in timers : net' = Sent(Msg("progress", currentSessionId, t))
       /\ (/\ ev'.op \in {"analyzeResponse", "continueResponse"}
           /\ ev'.ok
           /\ currentSessionId # Null
           /\ currentSessionId' # currentSessionId)
          => timers \cap timers' = {}]_vars

\* C5: after a successful pause no poll timer is running; after a successful
\* resume exactly one is, the one the controller holds.
C5_PauseStopsResumeRestarts ==
    /\ (ev.op = "pauseResponse" /\ ev.ok) => timers = {}
    /\ (ev.op = "resumeResponse" /\ ev.ok)
          => Cardinality(timers) = 1 /\ progressInterval \in timers

\* C6: when start-analysis succeeds with identifier S, the in-memory and the
\* persisted identifier are S, and the handler has started a poll, which asks
\* for the progress of S.
C6_StartRecordsThenPolls ==
    (ev.op = "analyzeResponse" /\ ev.ok)
       => /\ currentSessionId = ev.sid
          /\ storedSessionId = ev.sid
          /\ progressInterval = nextTimer - 1
          /\ progressInterval \in timers
          /\ ProgressUrl = ev.sid

C6_StartedWitness ==
    /\ ev.op = "analyzeResponse" /\ ev.ok /\ ev.sid = "s2"
    /\ storedSessionId = "s2"
    /\ timers = {1}

\* C7 as claimed: after a failed start-analysis request an error notification
\* was emitted and no session is active: no current identifier, no poll timer.
C7_FailedStartLeavesNoSession ==
    (ev.op = "analyzeResponse" /\ ~ev.ok)
       => emitted = <<"error">> /\ currentSessionId = Null /\ timers = {}

\* C7 as amended: a failed start-analysis request emits an error notification
\* and leaves the current identifier, the persisted identifier, the paused flag
\* and the poll timers as they were.
C7_FailedStartChangesNoSession ==
    [][(ev'.op = "analyzeResponse" /\ ~ev'.ok)
          => /\ emitted' = <<"error">>
             /\ UNCHANGED <<currentSessionId, storedSessionId, isPaused,
                            progressInterval, timers>>]_vars

C7_FailedStartWitness ==
    /\ ev.op = "analyzeResponse" /\ ~ev.ok
    /\ emitted = <<"error">>
    /\ currentSessionId = "s1"
    /\ progressInterval \in timers

\* the length of a text between its first and its last character that is not
\* a space
TrimmedLen(s) ==
    LET solid == {i \in 1..Len(s) : s[i] # " "}
    IN  IF solid = {} THEN 0
        ELSE (CHOOSE i \in solid : \A j \in solid : j <= i)
                 - (CHOOSE i \in solid : \A j \in solid : i <= j) + 1

\* C8: a submit whose segment is empty or, trimmed, shorter than 3 characters
\* emits one warning, sends no request, and leaves the current identifier, the
\* persisted identifier and the poll timer unchanged.
C8_InvalidSegmentRejected ==
    [][(ev'.op = "startAnalysis" /\ TrimmedLen(ev'.segmento) < 3)
          => /\ emitted' = <<"warning">>
             /\ net' = net
             /\ UNCHANGED <<currentSessionId, storedSessionId, progressInterval,
                            timers>>]_vars

C8_PaddedSegmentWitness ==
    /\ ev.op = "startAnalysis"
    /\ Len(ev.segmento) = 3 /\ TrimmedLen(ev.segmento) = 1
    /\ emitted = <<"warning">>
    /\ timers # {}

\* C9: a submit with an empty product emits a warning and sends no request.
C9_EmptyProductRejected ==
    [][(ev'.op = "startAnalysis" /\ ev'.produto = "")
          => emitted' = <<"warning">> /\ net' = net]_vars

\* C10: every poll response that is not a success snapshot stops the poll timer
\* and emits an error notification, whether or not it carries a message.
C10_PollFailureStopsAndNotifies ==
    (ev.op = "progressResponse" /\ ev.out = "fail")
       => emitted = <<"error">> /\ progressInterval = NoTimer

\* C11: a poll tick whose request fails in transport is only logged: no
\* notification, no change of the identifiers, the flag, the timers, the mapping
\* or the display, and every tick of a live interval sends a request of its own.
C11_TransportFailureOnlyLogged ==
    [][/\ (ev'.op = "progressResponse" /\ ev'.out = "throw")
          => /\ emitted' = <<>>
             /\ \E m \in Pending("progress") : net' = Answered(m)
             /\ UNCHANGED <<currentSessionId, storedSessionId, isPaused, sessions,
                            progressInterval, timers, progressVars, progressShown,
                            controls, listView>>
       /\ ev'.op = "tick"
          => \E t \in timers' :
                 net' = Sent(Msg("progress", currentSessionId, t))]_vars

C11_FailedTickWitness ==
    /\ ev.op = "progressResponse" /\ ev.out = "throw" /\ ~ev.cancelled
    /\ progressInterval \in timers
    /\ storedSessionId = "s2"
    /\ progressShown

\* C12: after a failed poll tick, a transport failure or a failure response, the
\* interval that sent the request is no longer live, and while the session it
\* asked about is the current one no interval is left to ask about it again.
C12_FailedPollStopsTimer ==
    [][(ev'.op = "progressResponse" /\ ev'.out # "ok")
          => \E m \in Pending("progress") :
                 /\ net' = Answered(m)
                 /\ m.timer \notin timers'
                 /\ (m.sid = currentSessionId => timers' = {})]_vars

\* C13: a failed pause, resume, save, continue, delete or clear-all emits an
\* error notification and changes nothing: the identifiers, the paused flag, the
\* poll timers and the mapping are as before, and so is the progress display,
\* which after a failed continue is the one the click found.
C13_FailedActionChangesNothing ==
    [][(/\ ev'.op \in {"pauseResponse", "resumeResponse", "saveResponse",
                       "continueResponse", "deleteResponse", "clearResponse"}
        /\ ~ev'.ok)
          => /\ emitted' = <<"error">>
             /\ UNCHANGED <<currentSessionId, storedSessionId, isPaused,
                            progressInterval, timers, sessions>>
             /\ IF ev'.op = "continueResponse"
                THEN displayBefore.known => Display' = displayBefore.display
                ELSE Display' = Display]_vars

\* C14: a status request is in flight after startup exactly when an identifier
\* was persisted, and none is sent later; its answer decides by the reported
\* status: running shows the progress view and starts a poll that asks for the
\* identifier queried, paused shows the paused controls and starts no poll,
\* completed removes the persisted identifier and starts no poll, error only
\* notifies, starting no poll and keeping the persisted identifier.
C14_StartupRecovery ==
    [][/\ ev.op = "init" => (Pending("status") # {} <=> storedSessionId # Null)
       /\ \A m \in Pending("status")' : m \in Pending("status")
       /\ (ev'.op = "statusResponse" /\ ev'.out = "ok" /\ ev'.status = "running")
             => /\ progressShown'
                /\ progressInterval' \in timers' \ timers
                /\ ProgressUrl' = ev'.sid
       /\ (ev'.op = "statusResponse" /\ ev'.out = "ok" /\ ev'.status = "paused")
             => /\ controls' = "paused"
                /\ UNCHANGED <<timers, progressInterval>>
       /\ (ev'.op = "statusResponse" /\ ev'.out = "ok" /\ ev'.status = "completed")
             => /\ storedSessionId' = Null
                /\ UNCHANGED <<timers, progressInterval>>
       /\ (ev'.op = "statusResponse" /\ ev'.out = "ok" /\ ev'.status = "error")
             => /\ emitted' # <<>>
                /\ UNCHANGED <<timers, progressInterval, storedSessionId,
                               currentSessionId, isPaused, controls, Display>>]_vars

\* the status the last session of a list with this identifier carries
LastStatus(list, id) ==
    LET at == {i \in 1..Len(list) : list[i].session_id = id}
    IN  list[CHOOSE i \in at : \A j \in at : j <= i].status

\* C15: right after a successful list response the mapping holds exactly the
\* sessions of that response under their identifiers, nothing of an earlier one.
C15_ListReplacesMapping ==
    [][(ev'.op = "listResponse" /\ ev'.ok)
          => /\ DOMAIN sessions'
                   = {ev'.list[i].session_id : i \in 1..Len(ev'.list)}
             /\ \A id \in DOMAIN sessions' :
                   sessions'[id] = LastStatus(ev'.list, id)]_vars

C15_ShorterListWitness ==
    /\ ev.op = "listResponse" /\ ev.ok
    /\ ev.list = <<[session_id |-> "s2", status |-> "saved"]>>
    /\ sessions = [s \in {"s2"} |-> "saved"]
    /\ Pending("list") # {}

\* C16: the failure of a start, pause, resume, save, continue, delete,
\* clear-all, upload, list fetch or startup status check, in transport or by the
\* application, is shown as exactly one error notification.
C16_EveryFailureOneError ==
    (\/ /\ ev.op \in {"analyzeResponse", "pauseResponse", "resumeResponse",
                      "saveResponse", "continueResponse", "deleteResponse",
                      "clearResponse", "uploadResponse", "listResponse"}
        /\ ~ev.ok
     \/ /\ ev.op = "statusResponse"
        /\ ev.out # "ok")
       => emitted = <<"error">>

\* the places in a batch of the files within 10 MiB whose type is on the list
Acceptable(files) ==
    {i \in 1..Len(files) :
        /\ files[i].size <= 10485760
        /\ files[i].type \in
              {"application/pdf", "text/plain", "application/msword",
               "application/vnd.openxmlformats-officedocument.wordprocessingml.document"}}

\* C17: a file is passed to the upload call if and only if its size is at most
\* 10 MiB and its type is on the allow-list; every other file of the batch
\* produces a warning and no request.
C17_OnlyValidFilesUploaded ==
    [][ev'.op = "handleFiles"
          => LET files == ev'.files
                 ok == Acceptable(files)
             IN  /\ \A name \in {"f1", "f2"} :
                       CopiesIn(Msg("upload", name, NoTimer), net')
                          = CopiesIn(Msg("upload", name, NoTimer), net)
                              + Cardinality({i \in ok : files[i].name = name})
                 /\ BagCardinality(net') = BagCardinality(net) + Cardinality(ok)
                 /\ emitted' = [i \in 1..(Len(files) - Cardinality(ok)) |-> "warning"]]_vars

C17_BoundaryFileWitness ==
    /\ ev.op = "handleFiles"
    /\ ev.files = <<[name |-> "f1", size |-> 10485760, type |-> "application/pdf"],
                    [name |-> "f2", size |-> 10485761, type |-> "application/msword"]>>
    /\ emitted = <<"warning">>
    /\ CopiesIn(Msg("upload", "f1", NoTimer), net) = 1
    /\ CopiesIn(Msg("upload", "f2", NoTimer), net) = 0

\* C18: the answer to the upload of a file produces exactly one notification
\* for that file, a success or an error one, and touches no other upload:
\* those still in flight stay in flight.
C18_OneNotificationPerUpload ==
    [][ev'.op = "uploadResponse"
          => /\ emitted' = IF ev'.ok THEN <<"success">> ELSE <<"error">>
             /\ net' = Answered(Msg("upload", ev'.name, NoTimer))]_vars

\* C19: each showNotification call appends exactly one new element to the end
\* of the collection, which grows by one; the element is none of those already
\* there, whatever their message and severity, and carries the call's own.
C19_ShowAppendsOneElement ==
    [][ev'.op = "showNotification"
          => /\ Len(notifications') = Len(notifications) + 1
             /\ SubSeq(notifications', 1, Len(notifications)) = notifications
             /\ LET el == notifications'[Len(notifications')]
                IN  /\ \A i \in 1..Len(notifications) : notifications[i] # el
                    /\ elements'[el].message = ev'.message
                    /\ elements'[el].type = ev'.type]_vars

C19_DuplicateShownTwiceWitness ==
    /\ ev.op = "showNotification"
    /\ Len(notifications) = 2
    /\ notifications[1] # notifications[2]
    /\ elements[notifications[1]] = elements[notifications[2]]

\* C20: for every session of the rendered list, the continue action is among
\* its actions if and only if its status is paused, error or saved; it is not
\* for running, completed and statuses the client does not know.
C20_ContinueOfferedIff ==
    listView = "list"
       => \A sid \in DOMAIN sessions :
             /\ ContinueOffered(sid)
                   <=> (\/ sessions[sid] = "paused"
                        \/ sessions[sid] = "error"
                        \/ sessions[sid] = "saved")
             /\ sessions[sid] \in {"running", "completed", "archived"}
                   => ~Includes(GetSessionActions(sessions[sid]), "continue")

C20_SavedSessionWitness ==
    /\ ev.op = "listResponse" /\ ev.ok
    /\ listView = "list"
    /\ sessions = [s \in {"s2"} |-> "saved"]
    /\ ContinueOffered("s2")

\* C21: every displayed progress value, the width of the bar, the percentage
\* text and the percentage of the page title, lies in 0..100 whatever
\* percentage the server reported.
C21_DisplayedProgressClamped ==
    /\ progressFill \in 0..100
    /\ progressPercentage \in 0..100
    /\ pageTitle \in 0..100

\* C22: a delete or a clear-all whose confirmation is declined sends no
\* request, emits no notification and leaves the mapping and the rendered list
\* as they were: the session is still listed.
C22_DeclinedConfirmationChangesNothing ==
    [][(ev'.op \in {"deleteSession", "clearAllSessions"} /\ ~ev'.confirmed)
          => /\ net' = net
             /\ emitted' = <<>>
             /\ UNCHANGED <<sessions, listView>>
             /\ ev'.op = "deleteSession"
                   => ev'.sid \in DOMAIN sessions' /\ listView' = "list"]_vars

C22_DeclinedDeleteWitness ==
    /\ ev.op = "deleteSession" /\ ~ev.confirmed /\ ev.sid = "s1"
    /\ "s1" \in DOMAIN sessions
    /\ listView = "list"
    /\ Pending("delete") = {}

\* C23: restoring from the stored form data puts back exactly the field values
\* the save that stored it captured, at a page load and when the startup
\* status request is answered: a save followed by a restore gives the saved
\* form, whatever the form held before the restore; and a save stores the
\* fields of the form and nothing of what was stored before.
C23_RestoreOfSaveIsIdentity ==
    [][/\ (ev.op = "init" /\ storedSessionId = Null)
          => \A f \in Forms : storedFormData = SavedFormData(f, NoFormData) => form = f
       /\ ev'.op = "autoSaveForm"
          => /\ storedFormData'.present
             /\ \A f \in Forms : RestoreFormData(f, storedFormData') = form
             /\ [i \in 1..Len(storedFormData'.json) |-> storedFormData'.json[i].key]
                   = FormFields
       /\ ev'.op = "statusResponse"
          => \A f \in Forms :
                 storedFormData = SavedFormData(f, NoFormData) => form' = f]_vars

C23_EscapedValuesRestoredWitness ==
    /\ ev.op = "statusResponse"
    /\ storedFormData.present
    /\ form = [name \in {"segmento", "produto"} |->
                  IF name = "segmento" THEN <<"\"">> ELSE <<"\\">>]
    /\ RestoreFormData(BlankForm, storedFormData) = form

\* C24: polling terminates with the completion: once an answer reporting
\* completed:true has been handled, no poll timer is live, so that no further
\* progress request is sent, however the polling was started.
C24_CompletionEndsPolling ==
    (ev.op = "progressResponse" /\ ev.out = "ok" /\ ev.completed) => timers = {}

\* C25: a success answer of the poll that does not report completion only
\* updates the displayed progress: the poll timers, the persisted and the
\* current identifier, the controls and the list are as before, no
\* notification is emitted and no list request is sent.
C25_SnapshotOnlyUpdatesDisplay ==
    [][(ev'.op = "progressResponse" /\ ev'.out = "ok" /\ ~ev'.completed)
          => /\ progressFill' = Max(0, Min(100, ev'.percentage))
             /\ progressPercentage' = ev'.percentage
             /\ pageTitle' = ev'.percentage
             /\ emitted' = <<>>
             /\ \E m \in Pending("progress") : net' = Answered(m)
             /\ UNCHANGED <<timers, progressInterval, storedSessionId,
                            currentSessionId, isPaused, sessions, listView,
                            controls, progressShown, completionFetches>>]_vars

C25_SnapshotWitness ==
    /\ ev.op = "progressResponse" /\ ev.out = "ok" /\ ~ev.completed
    /\ ~ev.cancelled
    /\ ev.percentage = 45 /\ progressFill = 45
    /\ progressInterval \in timers
    /\ storedSessionId = "s1"
    /\ Pending("list") = {}

\* C26: every notification in the collection is eventually removed from it,
\* and by one removal only: the timeout that removes an element takes that
\* element out of the collection and of the document and no other, also when
\* a second removal of the element is still pending or has already run, and
\* nothing else takes an element out.
C26_RemovedOnceEventually ==
    /\ [][/\ ev'.op = "fadedOut"
              => /\ ~Includes(notifications', ev'.el)
                 /\ ~Includes(container', ev'.el)
                 /\ notifications'
                       = SelectSeq(notifications, LAMBDA x : x # ev'.el)
          /\ ev'.op \in {"autoRemove", "closeNotification", "clearNotifications"}
              => notifications' = notifications]_vars
    /\ \A el \in 1..MaxElements :
           Includes(notifications, el) ~> ~Includes(notifications, el)

C26_OverlappingRemovalsWitness ==
    /\ ev.op = "fadedOut" /\ ev.el = 1
    /\ ~Includes(notifications, 1)
    /\ notifications = <<2>>
    /\ ~BagIn(Timeout("auto", 1), timeouts)
    /\ ~BagIn(Timeout("fade", 1), timeouts)
    /\ BagIn(Timeout("auto", 2), timeouts)

\* C27: whenever an identifier is persisted, it is the current identifier of
\* the controller.
C27_PersistedIsCurrent ==
    storedSessionId # Null => storedSessionId = currentSessionId

C27_StartDuringRecoveryWitness ==
    /\ ev.op = "analyzeResponse" /\ ev.ok
    /\ Pending("status") # {}
    /\ storedSessionId = "s2"
    /\ currentSessionId = "s2"

\* C28: the answer of the startup status check, or of a poll, that removes the
\* persisted identifier is an answer about that identifier: one persisted by a
\* start or a continue while the request was in flight is not removed.
C28_RemovesOnlyItsOwnIdentifier ==
    [][(/\ ev'.op \in {"statusResponse", "progressResponse"}
        /\ storedSessionId # Null
        /\ storedSessionId' = Null)
          => \E m \in Pending("status") \cup Pending("progress") :
                 /\ m.sid = storedSessionId
                 /\ \/ net' = Answered(m)
                    \/ net' = Answered(m) (+) SetToBag({Msg("list", Null, NoTimer)})]_vars

\* C29: while the paused flag is set no poll timer is running.
C29_PausedMeansNoTimer == isPaused => timers = {}

\* C30: once a delete of a session has succeeded, the session is absent from
\* the mapping for as long as no list was requested after the delete was
\* confirmed: the answer to a list request sent before the delete does not
\* put it back.
C30_DeletedStaysAbsent ==
    (lastDelete.done /\ ~lastDelete.listedSince)
       => lastDelete.sid \notin DOMAIN sessions

\* C31: the answer to a delete or to a clear-all, a success or a failure,
\* leaves the current identifier, the persisted identifier, the paused flag and
\* the poll timers as they were, also when the session deleted is the current
\* one and is being polled.
C31_DeleteLeavesSessionState ==
    [][ev'.op \in {"deleteResponse", "clearResponse"}
          => UNCHANGED <<currentSessionId, storedSessionId, isPaused,
                         progressInterval, timers>>]_vars

C31_ActiveSessionDeletedWitness ==
    /\ ev.op = "deleteResponse" /\ ev.ok
    /\ ev.sid = currentSessionId
    /\ storedSessionId = currentSessionId
    /\ progressInterval \in timers
    /\ ev.sid \notin DOMAIN sessions

\* C32: the form data found stored at the page load is restored into the form
\* before any save replaces it: as long as the startup status request is
\* awaited, and the form therefore not restored, what is stored stays as it is.
C32_RestoredBeforeAnySave ==
    [][(Pending("status") # {} /\ storedFormData.present)
          => storedFormData' = storedFormData]_vars

====
